---- MODULE Spec2Model ----
(***************************************************************************)
(* A model of src/shell.py: the micro-shell command loop `shell()`, its    *)
(* command handlers `ush_*` and the HTTP fetch helper `http_get`.          *)
(*                                                                         *)
(* Text.  A Python string is modelled as a sequence of lexemes.  A lexeme  *)
(* is one of the separator characters the program splits on (" ", "/",     *)
(* ":"), a single decimal digit, the four-byte blank-line separator        *)
(* "\r\n\r\n", or a maximal run of other characters (a word).  The empty   *)
(* string is <<>>.  Concatenation is \o.                                   *)
(*                                                                         *)
(* Host.  The filesystem, the resolver, the socket and the reset           *)
(* primitives are the program's collaborators.  Every call the program     *)
(* makes to them either succeeds or raises; the outcome is decided by the  *)
(* modelled host state together with a nondeterministic I/O outcome.       *)
(* Creating the socket object itself is taken to succeed.                  *)
(***************************************************************************)
EXTENDS Integers, Sequences, FiniteSets, TLC

VARIABLES
    pc,         \* where shell() is: "WaitingForInput" (in input), "Looping" (the body of
                \* the iteration is over), "Receiving" (in http_get's receive loop),
                \* "Terminated" (after break), "Crashed" (an exception left it), "Reset"
    exc,        \* the exception that left shell(): its type and the line that raised it
    inp,        \* the line returned by input('$ ') in this iteration
    handler,    \* the handler the line was dispatched to, "none" if none
    hargs,      \* the argument list that handler was called with
    out,        \* the lines printed in this iteration
    fs,         \* the host filesystem: path -> entry
    cwd,        \* the host's current working directory
    sock,       \* the socket created by http_get in this iteration: "none", "open", "closed"
    net,        \* the resolver and socket calls of lines 198-207 made in this iteration
    url,        \* http_get's url argument, <<>> when http_get was not called
    response,   \* http_get's accumulated response
    output_file,\* http_get's output_file argument, <<>> when None
    files_open, \* the file objects http_get has opened and not closed
    df_row,     \* the statvfs result and the numbers of the row ush_df printed from it
    resets      \* the reset primitives called in this iteration, in order

vars == <<pc, exc, inp, handler, hargs, out, fs, cwd, sock, net, url,
          response, output_file, files_open, df_row, resets>>

-----------------------------------------------------------------------------
(* Bounds *)

\* longest response, in lexemes, a peer sends
MaxResp == 2

-----------------------------------------------------------------------------
(* Python string operations over lexeme sequences *)

SP == " "
SEP == "\\r\\n\\r\\n"

Last(s) == s[Len(s)]

Tail_n(s, n) == SubSeq(s, n + 1, Len(s))

\* index of the first occurrence of lexeme c in s, 0 if there is none
RECURSIVE IndexFrom(_, _, _)
IndexFrom(s, c, i) ==
    IF i > Len(s) THEN 0
    ELSE IF s[i] = c THEN i
    ELSE IndexFrom(s, c, i + 1)

Find(s, c) == IndexFrom(s, c, 1)

\* `c in s`
Contains(s, c) == Find(s, c) # 0

\* s.split(c, maxsplit): at most maxsplit cuts, empty parts are kept
RECURSIVE SplitOn(_, _, _)
SplitOn(s, c, maxsplit) ==
    IF maxsplit = 0 \/ ~Contains(s, c) THEN <<s>>
    ELSE LET i == Find(s, c)
         IN  <<SubSeq(s, 1, i - 1)>> \o SplitOn(Tail_n(s, i), c, maxsplit - 1)

\* s.split(): cut at runs of whitespace, no empty parts
RECURSIVE SplitWs(_)
SplitWs(s) ==
    IF s = <<>> THEN <<>>
    ELSE IF Head(s) = SP THEN SplitWs(Tail(s))
    ELSE LET i == Find(s, SP)
         IN  IF i = 0 THEN <<s>>
             ELSE <<SubSeq(s, 1, i - 1)>> \o SplitWs(Tail_n(s, i))

Digits == {"0", "1", "2", "3", "4", "5", "6", "7", "8", "9"}

DigitVal(d) ==
    CASE d = "0" -> 0 [] d = "1" -> 1 [] d = "2" -> 2 [] d = "3" -> 3
      [] d = "4" -> 4 [] d = "5" -> 5 [] d = "6" -> 6 [] d = "7" -> 7
      [] d = "8" -> 8 [] d = "9" -> 9

RECURSIVE DecimalValue(_, _)
DecimalValue(s, acc) ==
    IF s = <<>> THEN acc
    ELSE DecimalValue(Tail(s), acc * 10 + DigitVal(Head(s)))

\* int(s) of a string: raises ValueError unless s is a non-empty run of digits
IntOk(s) == s # <<>> /\ \A i \in 1..Len(s) : s[i] \in Digits
IntVal(s) == DecimalValue(s, 0)

\* a printed line: the format text, the string formatted into it, and the numbers
Msg(text, arg) == [word |-> "", text |-> text, arg |-> arg, nums |-> <<>>]
MsgN(text, arg, nums) == [word |-> "", text |-> text, arg |-> arg, nums |-> nums]

\* a printed line whose format text is `word` followed by `rest`: the usage
\* lines (`usage: ...`) and the diagnostics of the handlers (`cat: ...`)
Line(word, rest, arg) == [word |-> word, text |-> rest, arg |-> arg, nums |-> <<>>]

-----------------------------------------------------------------------------
(* The host filesystem *)

\* the names the host's directories can hold, in listing order
NameOrder == <<"d", "f">>

\* the paths (from the root, <<>>) at which the host can hold an entry
FsPaths == {<<"d">>, <<"f">>, <<"d", "f">>}

Absent == [kind |-> "absent", data |-> <<>>]
DirEntry == [kind |-> "dir", data |-> <<>>]
FileEntry(data) == [kind |-> "file", data |-> data]

\* a path that names nothing and under which nothing can be created
Nowhere == <<"", "", "">>

Lookup(p) ==
    IF p = <<>> THEN DirEntry
    ELSE IF p \in FsPaths THEN fs[p]
    ELSE Absent

Parent(p) == IF p = <<>> THEN <<>> ELSE SubSeq(p, 1, Len(p) - 1)

\* the path a path argument names, relative to the working directory
Resolve(arg) ==
    IF arg = <<"/">> THEN <<>>
    ELSE IF arg = <<"..">> THEN Parent(cwd)
    ELSE IF Len(arg) = 1 /\ arg[1] \notin {"/", ":", SP, SEP} THEN Append(cwd, arg[1])
    ELSE Nowhere

IsPrefix(p, q) == Len(p) <= Len(q) /\ SubSeq(q, 1, Len(p)) = p

\* os.listdir(p): the names of the entries of directory p
ListDir(p) == SelectSeq(NameOrder, LAMBDA n : Lookup(Append(p, n)).kind # "absent")

\* st_size of an entry
Size(e) == Len(e.data)

\* os.getcwd(): the working directory as text
RECURSIVE PathText(_)
PathText(p) ==
    IF p = <<>> THEN <<>> ELSE <<"/", Head(p)>> \o PathText(Tail(p))

GetCwd == IF cwd = <<>> THEN <<"/">> ELSE PathText(cwd)

\* the host calls succeed exactly on these conditions (and when the I/O succeeds)
CanStat(p) == Lookup(p).kind # "absent"
CanChdir(p) == Lookup(p).kind = "dir"
CanRead(p) == Lookup(p).kind = "file"
CanListDir(p) == Lookup(p).kind = "dir"
CanMkdir(p) == p \in FsPaths /\ Lookup(p).kind = "absent" /\ Lookup(Parent(p)).kind = "dir"
CanRemove(p) == Lookup(p).kind = "file"
CanRmdir(p) ==
    /\ p # <<>>
    /\ Lookup(p).kind = "dir"
    /\ ListDir(p) = <<>>
    /\ ~IsPrefix(p, cwd)
CanWrite(p) == p \in FsPaths /\ Lookup(p).kind # "dir" /\ Lookup(Parent(p)).kind = "dir"

\* removing an entry
Without(p) == [fs EXCEPT ![p] = Absent]

-----------------------------------------------------------------------------
(* The lines typed at the prompt *)

RECURSIVE Join(_)
Join(toks) ==
    IF toks = <<>> THEN <<>>
    ELSE IF Len(toks) = 1 THEN Head(toks)
    ELSE Head(toks) \o <<SP>> \o Join(Tail(toks))

UrlHttp == <<"http", ":", "/", "/", "h", "/", "p">>
UrlHttps == <<"https", ":", "/", "/", "h", "/", "p">>
UrlHttpsPort == <<"https", ":", "/", "/", "h", ":", "8", "4", "4", "3", "/", "a", "/", "b">>
UrlHttpsEmptyPort == <<"https", ":", "/", "/", "h", ":", "/", "p">>
UrlBadPort == <<"http", ":", "/", "/", "h", ":", "x", "/", "p">>
UrlFtp == <<"ftp", ":", "/", "/", "h", "/", "p">>
UrlFtpBadPort == <<"ftp", ":", "/", "/", "h", ":", "x", "/", "p">>
UrlUpper == <<"HTTP", ":", "/", "/", "h", "/", "p">>
UrlNoColon == <<"http", "/", "/", "h", "/", "p">>
UrlNoSlashes == <<"http", ":", "h", "/", "p">>
UrlNoPath == <<"http", ":", "/", "/", "h">>

Urls == {UrlHttp, UrlHttps, UrlHttpsPort, UrlHttpsEmptyPort,
         UrlBadPort, UrlFtp, UrlFtpBadPort, UrlUpper, UrlNoColon, UrlNoSlashes, UrlNoPath}

PathArgs == {<<"f">>, <<"d">>}

\* the token lists typed
TokenLists ==
    {<<<<c>>>> : c \in {"exit", "quit", "EXIT", "foo", "cat", "cd", "df", "free",
                        "meminfo", "vmstat", "help", "ls", "mkdir", "pwd",
                        "reboot", "rm", "rmdir", "uget", "wget"}}
    \cup {<<<<c>>, a>> : c \in {"cat", "cd", "df", "ls", "mkdir", "rm", "rmdir", "foo"},
                         a \in PathArgs}
    \cup {<<<<c>>, <<a>>>> : c \in {"ls", "mkdir", "rm", "rmdir", "reboot"},
                             a \in {"-h", "help"}}
    \cup {<<<<"cd">>, <<"..">>>>, <<<<"cd">>, <<"/">>>>, <<<<"ls">>, <<"-l">>>>,
          <<<<"reboot">>, <<"hard">>>>, <<<<"reboot">>, <<"f">>>>,
          <<<<"free">>, <<"f">>>>, <<<<"exit">>, <<"f">>>>, <<<<"help">>, <<"f">>>>}
    \cup {<<<<"ls">>, <<"-l">>, a>> : a \in PathArgs \cup {<<"nosuch">>}}
    \cup {<<<<c>>, <<"nosuch">>>> : c \in {"ls", "rm", "cat"}}
    \cup {<<<<"uget">>, u>> : u \in Urls}
    \cup {<<<<"uget">>, <<"f">>, u>> : u \in {UrlHttp, UrlFtp, UrlNoPath}}
    \cup {<<<<"wget">>, UrlFtp>>, <<<<"uget">>, <<"f">>, <<"d">>, UrlFtp>>}

\* the lines typed: empty, whitespace only, and token lists joined by whitespace
Lines ==
    {<<>>, <<SP>>, <<SP, SP>>}
    \cup {Join(t) : t \in TokenLists}
    \cup {<<SP>> \o Join(t) \o <<SP>> : t \in {<<<<"exit">>>>, <<<<"pwd">>>>, <<<<"foo">>>>}}

\* the responses a peer sends: headers, blank-line separator, body text
RespLexemes == {"x", SEP}

-----------------------------------------------------------------------------
(* shell(): the state before the first prompt *)

\* no row printed by ush_df: no statvfs result (frsize, blocks, bfree) and no numbers
NoRow == [frsize |-> 0, blocks |-> 0, bfree |-> 0,
          size |-> 0, used |-> 0, avail |-> 0, cap |-> 0]

NoExc == [type |-> "none", line |-> 0]

Init ==
    /\ pc = "WaitingForInput"
    /\ exc = NoExc
    /\ inp = <<>>
    /\ handler = "none"
    /\ hargs = <<>>
    /\ out = <<>>
    /\ fs = [p \in FsPaths |->
                IF p = <<"f">> THEN FileEntry(<<"old">>)
                ELSE IF p = <<"d">> THEN DirEntry
                ELSE Absent]
    /\ cwd = <<>>
    /\ sock = "none"
    /\ net = <<>>
    /\ response = <<>>
    /\ url = <<>>
    /\ output_file = <<>>
    /\ files_open = {}
    /\ df_row = NoRow
    /\ resets = <<>>

\* the elif chain of shell(): the branch taken for the command word cmd
Dispatch(cmd) ==
    IF cmd = <<"exit">> \/ cmd = <<"quit">> THEN "break"
    ELSE IF cmd = <<"cat">> THEN "ush_cat"
    ELSE IF cmd = <<"cd">> THEN "ush_cd"
    ELSE IF cmd = <<"df">> THEN "ush_df"
    ELSE IF cmd = <<"free">> \/ cmd = <<"meminfo">> \/ cmd = <<"vmstat">> THEN "ush_meminfo"
    ELSE IF cmd = <<"help">> THEN "ush_help"
    ELSE IF cmd = <<"ls">> THEN "ush_ls"
    ELSE IF cmd = <<"mkdir">> THEN "ush_mkdir"
    ELSE IF cmd = <<"pwd">> THEN "ush_pwd"
    ELSE IF cmd = <<"reboot">> THEN "ush_reboot"
    ELSE IF cmd = <<"rm">> THEN "ush_rm"
    ELSE IF cmd = <<"rmdir">> THEN "ush_rmdir"
    ELSE IF cmd = <<"uget">> \/ cmd = <<"wget">> THEN "ush_uget"
    ELSE "not found"

NotFoundMsg_unformatted(cmd) == Msg("ush: command not found: ", <<"{}">>)

\* the line printed by the else branch of shell()
NotFoundMsg(cmd) == Msg("ush: command not found: ", cmd)

\* nothing of http_get, ush_df or the file table is touched in this iteration
NoFetch ==
    /\ sock' = "none"
    /\ net' = <<>>
    /\ response' = <<>>
    /\ url' = <<>>
    /\ output_file' = <<>>
    /\ files_open' = {}

\* the handler returns to the loop having printed `lines`
Return(lines) ==
    /\ pc' = "Looping"
    /\ exc' = NoExc
    /\ out' = lines

\* exception e, raised at line `at` of shell.py, leaves shell() after `lines` were printed
Raise(e, at, lines) ==
    /\ pc' = "Crashed"
    /\ exc' = [type |-> e, line |-> at]
    /\ out' = lines

\* input('$ ') returned `line`, whose command word selects branch `name`
Read(line, name) ==
    /\ pc = "WaitingForInput"
    /\ inp' = line
    /\ line # <<>>
    /\ SplitWs(line) # <<>>
    /\ Dispatch(Head(SplitWs(line))) = name

Args_all(line) == SplitWs(line)

\* cmd_args after cmd_args.pop(0)
Args(line) == Tail(SplitWs(line))

\* `if not inp: continue`
ShellEmpty(line) ==
    /\ pc = "WaitingForInput"
    /\ line = <<>>
    /\ inp' = line
    /\ handler' = "none"
    /\ hargs' = <<>>
    /\ Return(<<>>)
    /\ NoFetch
    /\ df_row' = NoRow
    /\ resets' = <<>>
    /\ UNCHANGED <<fs, cwd>>

\* a line of whitespace only: inp.split() is [], and cmd_args.pop(0) raises
ShellBlank(line) ==
    /\ pc = "WaitingForInput"
    /\ line # <<>>
    /\ SplitWs(line) = <<>>
    /\ inp' = line
    /\ handler' = "none"
    /\ hargs' = <<>>
    /\ Raise("IndexError", 261, <<>>)
    /\ NoFetch
    /\ df_row' = NoRow
    /\ resets' = <<>>
    /\ UNCHANGED <<fs, cwd>>

\* `exit` or `quit`: break
ShellExit(line) ==
    /\ Read(line, "break")
    /\ handler' = "none"
    /\ hargs' = <<>>
    /\ pc' = "Terminated"
    /\ exc' = NoExc
    /\ out' = <<>>
    /\ NoFetch
    /\ df_row' = NoRow
    /\ resets' = <<>>
    /\ UNCHANGED <<fs, cwd>>

\* the else branch
ShellNotFound(line) ==
    /\ Read(line, "not found")
    /\ handler' = "none"
    /\ hargs' = <<>>
    /\ Return(<<NotFoundMsg(Head(SplitWs(line)))>>)
    /\ NoFetch
    /\ df_row' = NoRow
    /\ resets' = <<>>
    /\ UNCHANGED <<fs, cwd>>

-----------------------------------------------------------------------------
(* The filesystem handlers *)

ush_cat_nocheck(args) ==
    /\ IF args = <<>> THEN Raise("IndexError", 26, <<>>)
       ELSE LET path == args[1]
            IN  \E io \in BOOLEAN :
                   IF io /\ CanRead(Resolve(path))
                   THEN Return(<<Msg("", Lookup(Resolve(path)).data)>>)
                   ELSE Return(<<Line("cat", ": no such file or directory: ", path)>>)
    /\ UNCHANGED <<fs, cwd>>

ush_cat(args) ==
    /\ IF args = <<>> THEN Return(<<Line("usage", ": cat <file>", <<>>)>>)
       ELSE LET path == args[1]
            IN  \E io \in BOOLEAN :
                   IF io /\ CanRead(Resolve(path))
                   THEN Return(<<Msg("", Lookup(Resolve(path)).data)>>)
                   ELSE Return(<<Line("cat", ": no such file or directory: ", path)>>)
    /\ UNCHANGED <<fs, cwd>>

ush_cd_home(args) ==
    /\ IF args = <<>> THEN Return(<<>>) /\ cwd' = <<>>
       ELSE LET path == args[1]
            IN  \E io \in BOOLEAN :
                   IF io /\ CanChdir(Resolve(path))
                   THEN Return(<<>>) /\ cwd' = Resolve(path)
                   ELSE /\ Return(<<Line("cd", ": no such file or directory: ", path)>>)
                        /\ cwd' = cwd
    /\ UNCHANGED fs

ush_cd(args) ==
    /\ IF args = <<>> THEN Return(<<Line("usage", ": cd <dir>", <<>>)>>) /\ cwd' = cwd
       ELSE LET path == args[1]
            IN  \E io \in BOOLEAN :
                   IF io /\ CanChdir(Resolve(path))
                   THEN Return(<<>>) /\ cwd' = Resolve(path)
                   ELSE /\ Return(<<Line("cd", ": no such file or directory: ", path)>>)
                        /\ cwd' = cwd
    /\ UNCHANGED fs

ush_help ==
    /\ Return(<<Msg("ush: micropython shell implementation in Python.", <<>>)>>)
    /\ UNCHANGED <<fs, cwd>>

\* one line of `ls -l` for the entry named n of the working directory
LongLine(n) ==
    LET e == Lookup(Append(cwd, n))
    IN  IF e.kind = "dir"
        THEN MsgN("{:<24} {:<6} {} dir", <<n, "/">>, <<Size(e)>>)
        ELSE MsgN("{:<24} {:<6} {} file", <<n>>, <<Size(e)>>)

LongLines == [i \in 1..Len(ListDir(cwd)) |-> LongLine(ListDir(cwd)[i])]

ush_ls(args) ==
    /\ IF args = <<>>
       THEN \E io \in BOOLEAN :
               IF io THEN Return(<<Msg("", ListDir(cwd))>>)
               ELSE Raise("OSError", 129, <<>>)
       ELSE IF args[1] = <<"-h">>
       THEN Return(<<Line("usage", ": ls [-l] [path]", <<>>)>>)
       ELSE IF args[1] = <<"-l">>
       THEN IF Len(args) = 2
            THEN LET f == args[2]
                 IN  \E io \in BOOLEAN :
                        IF io /\ CanStat(Resolve(f))
                        THEN Return(<<MsgN("{:<24} {}", f, <<Size(Lookup(Resolve(f)))>>)>>)
                        ELSE Raise("OSError", 113, <<>>)
            ELSE \E io \in BOOLEAN :
                    IF io THEN Return(LongLines)
                    ELSE Raise("OSError", 116, <<>>)
       ELSE \E io \in BOOLEAN :
               IF io /\ CanListDir(Resolve(args[1]))
               THEN Return(<<Msg("", ListDir(Resolve(args[1])))>>)
               ELSE Raise("OSError", 127, <<>>)
    /\ UNCHANGED <<fs, cwd>>

ush_meminfo(args) ==
    /\ \E io \in BOOLEAN :
          IF io THEN Return(<<Msg("mem_info", <<>>), Msg("qstr_info", <<>>)>>)
          ELSE Raise("Exception", 133, <<>>)
    /\ UNCHANGED <<fs, cwd>>

ush_mkdir(args) ==
    /\ IF args = <<>> \/ args[1] = <<"-h">> \/ args[1] = <<"help">>
       THEN Return(<<Line("usage", ": mkdir <file>", <<>>)>>) /\ fs' = fs
       ELSE \E io \in BOOLEAN :
               IF io /\ CanMkdir(Resolve(args[1]))
               THEN Return(<<>>) /\ fs' = [fs EXCEPT ![Resolve(args[1])] = DirEntry]
               ELSE /\ Return(<<Line("mkdir", ": {}: File or directory exists", args[1])>>)
                    /\ fs' = fs
    /\ UNCHANGED cwd

ush_pwd ==
    /\ Return(<<Msg("", GetCwd)>>)
    /\ UNCHANGED <<fs, cwd>>

ush_rm(args) ==
    /\ IF args = <<>> \/ args[1] = <<"-h">> \/ args[1] = <<"help">>
       THEN Return(<<Line("usage", ": rm <file>", <<>>)>>) /\ fs' = fs
       ELSE \E io \in BOOLEAN :
               IF io /\ CanRemove(Resolve(args[1]))
               THEN Return(<<>>) /\ fs' = Without(Resolve(args[1]))
               ELSE /\ Return(<<Line("rm", ": {}: No such file (or is a directory)", args[1])>>)
                    /\ fs' = fs
    /\ UNCHANGED cwd

ush_rmdir(args) ==
    /\ IF args = <<>> \/ args[1] = <<"-h">> \/ args[1] = <<"help">>
       THEN Return(<<Line("usage", ": rmdir <directory>", <<>>)>>) /\ fs' = fs
       ELSE \E io \in BOOLEAN :
               IF io /\ CanRmdir(Resolve(args[1]))
               THEN Return(<<>>) /\ fs' = Without(Resolve(args[1]))
               ELSE /\ Return(<<Line("rm", ": {}: No such directory (or is a file)", args[1])>>)
                    /\ fs' = fs
    /\ UNCHANGED cwd

\* a handler that touches neither the network nor the reset primitives
Plain(line, name, passed) ==
    /\ Read(line, name)
    /\ handler' = name
    /\ hargs' = passed
    /\ NoFetch
    /\ df_row' = NoRow
    /\ resets' = <<>>

\* the fragment sizes and block counts os.statvfs reports
FrSizes == {512, 1024, 4096}
BlockCounts == {0, 3}

\* math.trunc(a / b) for a >= 0, b > 0
TruncDiv(a, b) == a \div b

\* adj_size and adj_avail: a count of f_frsize blocks in 1K blocks
Adjusted(count, frsize) ==
    IF frsize > 1024 THEN TruncDiv(count * frsize, 1024)
    ELSE TruncDiv(count * 1024, frsize)

ush_df(args) ==
    /\ LET path == IF args # <<>> THEN args[1] ELSE <<"/">>
           failed == <<Line("df", ": no such file or directory: ", path)>>
       IN  \E io \in BOOLEAN, frsize \in FrSizes, blocks \in BlockCounts :
           \E bfree \in 0..blocks :
              IF io /\ CanStat(Resolve(path))
              THEN LET adj_size == Adjusted(blocks, frsize)
                       adj_avail == Adjusted(bfree, frsize)
                       adj_used == adj_size - adj_avail
                   IN  IF adj_size = 0
                       THEN Return(failed) /\ df_row' = NoRow
                       ELSE /\ Return(<<Msg("Filesystem 1K-blocks Used Avail Capacity", <<>>),
                                        Msg("{:<12} {:<12} {:<12} {:<12} {:<12}", path)>>)
                            /\ df_row' = [frsize |-> frsize, blocks |-> blocks,
                                          bfree |-> bfree,
                                          size |-> adj_size, used |-> adj_used,
                                          avail |-> adj_avail,
                                          cap |-> TruncDiv(adj_used * 100, adj_size)]
              ELSE Return(failed) /\ df_row' = NoRow
    /\ UNCHANGED <<fs, cwd>>

ush_reboot_h(args) ==
    /\ IF args # <<>> /\ args[1] = <<"-h">>
       THEN Return(<<Line("usage", ": reboot [hard]", <<>>)>>) /\ resets' = <<>>
       ELSE LET hard == args # <<>> /\ args[1] = <<"hard">>
                said == IF hard
                        THEN <<Msg("Hard reset initiated (you will need to reconnect)", <<>>)>>
                        ELSE <<>>
                done == IF hard THEN <<"reset">> ELSE <<>>
            IN  \/ /\ hard
                   /\ pc' = "Reset" /\ exc' = NoExc /\ out' = said
                   /\ resets' = done
                \/ /\ pc' = "Reset" /\ exc' = NoExc
                   /\ out' = said \o <<Msg("Soft reset initiated", <<>>)>>
                   /\ resets' = done \o <<"soft_reset">>
                \/ /\ Return(said \o <<Msg("Soft reset initiated", <<>>)>>)
                   /\ resets' = done \o <<"soft_reset">>
    /\ UNCHANGED <<fs, cwd>>

ush_reboot(args) ==
    /\ IF args # <<>> /\ (args[1] = <<"-h">> \/ args[1] = <<"help">>)
       THEN Return(<<Line("usage", ": reboot [hard]", <<>>)>>) /\ resets' = <<>>
       ELSE LET hard == args # <<>> /\ args[1] = <<"hard">>
                said == IF hard
                        THEN <<Msg("Hard reset initiated (you will need to reconnect)", <<>>)>>
                        ELSE <<>>
                done == IF hard THEN <<"reset">> ELSE <<>>
            IN  \/ /\ hard
                   \* machine.reset() does not return
                   /\ pc' = "Reset" /\ exc' = NoExc /\ out' = said
                   /\ resets' = done
                \/ \* machine.soft_reset() is reached, and does not return
                   /\ pc' = "Reset" /\ exc' = NoExc
                   /\ out' = said \o <<Msg("Soft reset initiated", <<>>)>>
                   /\ resets' = done \o <<"soft_reset">>
                \/ \* machine.soft_reset() is reached, and returns
                   /\ Return(said \o <<Msg("Soft reset initiated", <<>>)>>)
                   /\ resets' = done \o <<"soft_reset">>
    /\ UNCHANGED <<fs, cwd>>

ShellCat(line) == Plain(line, "ush_cat", Args(line)) /\ ush_cat(Args(line))
ShellCd(line) == Plain(line, "ush_cd", Args(line)) /\ ush_cd(Args(line))
ShellMeminfo(line) == Plain(line, "ush_meminfo", Args(line)) /\ ush_meminfo(Args(line))
ShellHelp(line) == Plain(line, "ush_help", <<>>) /\ ush_help
ShellLs(line) == Plain(line, "ush_ls", Args(line)) /\ ush_ls(Args(line))
ShellMkdir(line) == Plain(line, "ush_mkdir", Args(line)) /\ ush_mkdir(Args(line))
ShellPwd(line) == Plain(line, "ush_pwd", <<>>) /\ ush_pwd
ShellRm(line) == Plain(line, "ush_rm", Args(line)) /\ ush_rm(Args(line))
ShellRmdir(line) == Plain(line, "ush_rmdir", Args(line)) /\ ush_rmdir(Args(line))

ShellDf(line) ==
    /\ Read(line, "ush_df")
    /\ handler' = "ush_df"
    /\ hargs' = Args(line)
    /\ NoFetch
    /\ resets' = <<>>
    /\ ush_df(Args(line))

ShellReboot(line) ==
    /\ Read(line, "ush_reboot")
    /\ handler' = "ush_reboot"
    /\ hargs' = Args(line)
    /\ NoFetch
    /\ df_row' = NoRow
    /\ ush_reboot(Args(line))

-----------------------------------------------------------------------------
(* http_get and ush_uget *)

\* a value of the variable `port`: the text after the colon, or a number
PortText(t) == [isStr |-> TRUE, text |-> t, num |-> 0]
PortNum(n) == [isStr |-> FALSE, text |-> <<>>, num |-> n]

\* `not port`
PortFalsy(port) == IF port.isStr THEN port.text = <<>> ELSE port.num = 0

\* int(port) does not raise / its value
PortIntOk(port) == port.isStr => IntOk(port.text)
PortInt(port) == IF port.isStr THEN IntVal(port.text) ELSE port.num

\* lines 188-192: the port taken from rawhost
ParsedPort(rawhost) ==
    IF Contains(rawhost, ":") THEN PortText(SplitOn(rawhost, ":", 1)[2])
    ELSE PortNum(80)

ParsedHost_raw(rawhost) == rawhost

\* lines 188-192: the host taken from rawhost
ParsedHost(rawhost) ==
    IF Contains(rawhost, ":") THEN SplitOn(rawhost, ":", 1)[1]
    ELSE rawhost

\* line 195 and line 200: the comparisons of the scheme
IsHttps(scheme) == scheme = <<"https", ":">>
IsHttp_else(scheme) == scheme # <<"https", ":">>
IsHttp(scheme) == scheme = <<"http", ":">>

\* lines 195-201: the port given to int() for the scheme
SchemePort(scheme, port) ==
    IF IsHttps(scheme) /\ PortFalsy(port) THEN PortNum(443)
    ELSE port

\* the line of the getaddrinfo call for the scheme, and of each network call
ResolveLine(scheme) == IF IsHttps(scheme) THEN 198 ELSE 201
CallLine(scheme, op) ==
    CASE op = "getaddrinfo" -> ResolveLine(scheme)
      [] op = "wrap_socket" -> 199
      [] op = "connect" -> 206
      [] op = "send" -> 207

\* the request of line 207
Request(path, host) ==
    <<"GET /">> \o path \o <<" HTTP/1.0\\r\\nHost: ">> \o host \o <<"\\r\\n\\r\\n">>

\* one network call of http_get
NetCall(op, host, port, data) == [op |-> op, host |-> host, port |-> port, data |-> data]

\* the calls of lines 198-207 in order, for a scheme: resolve, wrap, connect, send
Calls(scheme, host, port, path) ==
    <<NetCall("getaddrinfo", host, port, <<>>)>>
    \o (IF IsHttps(scheme) THEN <<NetCall("wrap_socket", host, port, <<>>)>> ELSE <<>>)
    \o <<NetCall("connect", host, port, <<>>),
         NetCall("send", host, port, Request(path, host))>>

DebugMsg(scheme, host, port, path) ==
    MsgN("DEBUG: http_get scheme({}) host({}) port({}) path({})",
         scheme \o <<SP>> \o host \o <<SP>> \o path,
         IF port.isStr THEN <<>> ELSE <<port.num>>)

\* http_get up to the receive loop (lines 187-209)
http_get(u, of) ==
    LET parts == SplitOn(u, "/", 3)
    IN  /\ url' = u
        /\ output_file' = of
        /\ response' = <<>>
        /\ files_open' = {}
        /\ UNCHANGED fs
        /\ IF Len(parts) # 4
           THEN \* the unpacking of line 187 raises
                Raise("ValueError", 187, <<>>) /\ sock' = "none" /\ net' = <<>>
           ELSE LET scheme == parts[1]
                    rawhost == parts[3]
                    path == parts[4]
                    host == ParsedHost(rawhost)
                    port == SchemePort(scheme, ParsedPort(rawhost))
                IN  /\ sock' = "open"
                    /\ IF ~IsHttps(scheme) /\ ~IsHttp(scheme)
                       THEN Return(<<Msg("Error: unknown scheme: ", scheme)>>) /\ net' = <<>>
                       ELSE IF ~PortIntOk(port)
                       THEN Raise("ValueError", ResolveLine(scheme), <<>>) /\ net' = <<>>
                       ELSE LET calls == Calls(scheme, host, PortInt(port), path)
                                debug == <<DebugMsg(scheme, host, port, path)>>
                            IN  \/ \* every call succeeds: the receive loop is entered
                                   /\ pc' = "Receiving"
                                   /\ exc' = NoExc
                                   /\ out' = debug
                                   /\ net' = calls
                                \/ \* call number n raises
                                   \E n \in 1..Len(calls) :
                                      /\ net' = SubSeq(calls, 1, n)
                                      /\ Raise("OSError", CallLine(scheme, calls[n].op),
                                               IF calls[n].op \in {"connect", "send"}
                                               THEN debug ELSE <<>>)

ush_uget_second(args) ==
    IF args = <<>>
    THEN /\ Return(<<Line("usage", ": uget [outputfile] <url>", <<>>)>>)
         /\ NoFetch
         /\ UNCHANGED fs
    ELSE IF Len(args) >= 2 THEN http_get(args[2], args[1]) ELSE http_get(args[1], <<>>)

ush_uget(args) ==
    IF args = <<>>
    THEN /\ Return(<<Line("usage", ": uget [outputfile] <url>", <<>>)>>)
         /\ NoFetch
         /\ UNCHANGED fs
    ELSE LET last == Last(args)
         IN  IF Len(args) >= 2 THEN http_get(last, args[1]) ELSE http_get(last, <<>>)

ShellUget(line) ==
    /\ Read(line, "ush_uget")
    /\ handler' = "ush_uget"
    /\ hargs' = Args(line)
    /\ df_row' = NoRow
    /\ resets' = <<>>
    /\ ush_uget(Args(line))
    /\ UNCHANGED cwd

\* the chunks one s.recv(100) can return while the peer is sending
Chunks(room) ==
    UNION {[1..n -> RespLexemes] : n \in 1..room}

\* lines 211-213: a receive returns data
RecvData ==
    /\ pc = "Receiving"
    /\ \E data \in Chunks(MaxResp - Len(response)) :
          response' = response \o data
    /\ UNCHANGED <<pc, exc, inp, handler, hargs, out, fs, cwd, sock, net, url, output_file,
                   files_open, df_row, resets>>

\* line 211: a receive raises
RecvError ==
    /\ pc = "Receiving"
    /\ Raise("OSError", 211, out)
    /\ UNCHANGED <<inp, handler, hargs, fs, cwd, sock, net, url, response, output_file,
                   files_open, df_row, resets>>

SplitResponse_all(resp) == SplitOn(resp, SEP, -1)

\* line 217: the decoded response split at the first blank line
SplitResponse(resp) == SplitOn(resp, SEP, 1)

\* lines 217-235: what follows the receive loop, for the accumulated response
Output ==
    LET parts == SplitResponse(response)
    IN  IF Len(parts) # 2
        THEN \* the unpacking of line 217 raises
             Raise("ValueError", 217, out) /\ UNCHANGED <<fs, files_open>>
        ELSE LET headers == parts[1]
                 body == parts[2]
                 said == out \o <<Msg("Headers:", <<>>), Msg("", headers)>>
                 p == Resolve(output_file)
             IN  IF body = <<>>
                 THEN Return(said \o <<Msg("Body: None", <<>>)>>)
                      /\ UNCHANGED <<fs, files_open>>
                 ELSE IF output_file = <<>>
                 THEN Return(said \o <<Msg("Body:", <<>>), Msg("", body)>>)
                      /\ UNCHANGED <<fs, files_open>>
                 ELSE \/ \* os.stat succeeds
                         /\ CanStat(p)
                         /\ Return(said \o
                               <<Msg("Error: file {} already exists, will not overwrite", <<>>)>>)
                         /\ UNCHANGED <<fs, files_open>>
                      \/ \* os.stat raises (no entry, or an I/O error), open raises
                         /\ Raise("OSError", 228,
                                  said \o <<Msg("Writing output to ", output_file)>>)
                         /\ UNCHANGED <<fs, files_open>>
                      \/ \* os.stat raises, open succeeds, write raises
                         /\ CanWrite(p)
                         /\ Raise("OSError", 229,
                                  said \o <<Msg("Writing output to ", output_file)>>)
                         /\ fs' = [fs EXCEPT ![p] = FileEntry(<<>>)]
                         /\ files_open' = {p}
                      \/ \* os.stat raises, the body is written and the file closed
                         /\ CanWrite(p)
                         /\ Return(said \o <<Msg("Writing output to ", output_file)>>)
                         /\ fs' = [fs EXCEPT ![p] = FileEntry(body)]
                         /\ files_open' = {}

\* lines 214-215: a receive returns no data, the loop ends and the output is produced
RecvEnd ==
    /\ pc = "Receiving"
    /\ Output
    /\ UNCHANGED <<inp, handler, hargs, cwd, sock, net, url, response, output_file, df_row,
                   resets>>

\* `while True:` the loop goes round to input('$ '); what the iteration left behind
\* (the line, the printed text, http_get's locals) is gone
Prompt ==
    /\ pc = "Looping"
    /\ pc' = "WaitingForInput"
    /\ exc' = NoExc
    /\ inp' = <<>>
    /\ handler' = "none"
    /\ hargs' = <<>>
    /\ out' = <<>>
    /\ NoFetch
    /\ df_row' = NoRow
    /\ resets' = <<>>
    /\ UNCHANGED <<fs, cwd>>

-----------------------------------------------------------------------------

Next ==
    \/ Prompt
    \/ \E line \in Lines :
          \/ ShellEmpty(line)
          \/ ShellBlank(line)
          \/ ShellExit(line)
          \/ ShellCat(line)
          \/ ShellCd(line)
          \/ ShellDf(line)
          \/ ShellMeminfo(line)
          \/ ShellHelp(line)
          \/ ShellLs(line)
          \/ ShellMkdir(line)
          \/ ShellPwd(line)
          \/ ShellReboot(line)
          \/ ShellRm(line)
          \/ ShellRmdir(line)
          \/ ShellUget(line)
          \/ ShellNotFound(line)
    \/ RecvData
    \/ RecvError
    \/ RecvEnd

Spec == Init /\ [][Next]_vars

-----------------------------------------------------------------------------
(* Properties *)

\* the tokens of the line of this iteration, and its first token
Tokens == SplitWs(inp)
HasTokens == Tokens # <<>>
Cmd == Head(Tokens)

\* the command names and aliases of the command surface
DocumentedCommands ==
    {<<"cat">>, <<"cd">>, <<"df">>, <<"free">>, <<"meminfo">>, <<"vmstat">>,
     <<"help">>, <<"ls">>, <<"mkdir">>, <<"pwd">>, <<"reboot">>, <<"rm">>,
     <<"rmdir">>, <<"uget">>, <<"wget">>, <<"exit">>, <<"quit">>}

\* C1: the loop ends (by break or by an exception leaving shell()) only on a
\* line whose first token is exactly `exit` or `quit`; every other line leaves
\* the loop running.
C1_LoopEndsOnlyOnExit ==
    pc \in {"Terminated", "Crashed"}
        => HasTokens /\ Cmd \in {<<"exit">>, <<"quit">>}

\* the handlers C2 lists
ListedHandlers ==
    {"ush_cat", "ush_cd", "ush_df", "ush_meminfo", "ush_help", "ush_ls",
     "ush_mkdir", "ush_pwd", "ush_rm", "ush_rmdir", "ush_uget"}

\* C2: whatever the arguments and whatever the outcome of its host calls, a
\* dispatched handler returns normally to the loop: no exception escapes it.
C2_NoFailureEscapesHandler ==
    handler \in ListedHandlers => exc = NoExc

\* a fetch was started in this iteration and http_get has ended
FetchEnded ==
    /\ handler = "ush_uget"
    /\ hargs # <<>>
    /\ pc \in {"Looping", "Crashed"}

\* C3: when http_get has ended, on whatever path, the socket it created is closed.
C3_SocketClosedAtEnd ==
    FetchEnded => sock # "open"

\* C4: a line whose first token is not a documented command name or alias
\* (compared case-sensitively) prints exactly `ush: command not found: <cmd>`,
\* invokes no handler, and the loop goes on to the next prompt.
C4_UnknownCommand ==
    (pc # "WaitingForInput" /\ HasTokens /\ Cmd \notin DocumentedCommands)
        => /\ out = <<Msg("ush: command not found: ", Cmd)>>
           /\ handler = "none"
           /\ exc = NoExc
           /\ pc = "Looping"

C4_Witness ==
    /\ pc = "Looping"
    /\ HasTokens
    /\ Cmd = <<"EXIT">>
    /\ out = <<Msg("ush: command not found: ", <<"EXIT">>)>>
    /\ handler = "none"

\* C5: a line that yields no tokens (empty, or whitespace only) is silently
\* ignored: nothing printed, no handler invoked, no error, the loop goes on.
C5_NoTokensIgnored ==
    (pc # "WaitingForInput" /\ ~HasTokens)
        => /\ pc = "Looping"
           /\ out = <<>>
           /\ handler = "none"
           /\ exc = NoExc

\* the URL given to http_get in this iteration, and its split at '/'
Url == Last(hargs)
UrlParts == SplitOn(Url, "/", 3)

\* the "already exists" diagnostic
AlreadyExistsMsg == Msg("Error: file {} already exists, will not overwrite", <<>>)

\* a step in which the receive loop ends on a complete response (no receive raised)
ResponseReceived ==
    /\ pc = "Receiving"
    /\ pc' # "Receiving"
    /\ exc'.line # 211

\* C6: when the output path already names an entry, then for every response
\* the fetch leaves the filesystem as it was (no overwrite, no append, no other
\* file) and prints the "already exists, will not overwrite" diagnostic.
C6_ExistingOutputKept ==
    [][(/\ ResponseReceived
        /\ output_file # <<>>
        /\ CanStat(Resolve(output_file)))
         => /\ fs' = fs
            /\ \E i \in 1..Len(out') : out'[i] = AlreadyExistsMsg]_vars

\* C7: every resolver and socket call of a fetch uses the explicit port of the
\* URL when it carries one, and otherwise 443 for https and 80 for http.
C7_PortUsed ==
    \A i \in 1..Len(net) :
        LET rawhost == UrlParts[3]
            given == SplitOn(rawhost, ":", 1)
        IN  IF ~Contains(rawhost, ":")
            THEN net[i].port = IF UrlParts[1] = <<"https", ":">> THEN 443 ELSE 80
            ELSE IntOk(given[2]) => net[i].port = IntVal(given[2])

\* the lines of http_get at which a network or protocol failure is raised:
\* the URL split, int(port) and address resolution, connect, the response split
NetworkFailureLines == {187, 198, 201, 206, 217}

\* C8: a network or protocol failure of a fetch (a URL of fewer than four
\* parts, a non-numeric port, a resolution or connect failure, a response
\* without separator) is reported by a printed line and leaves the loop running.
C8_FetchFailuresReported ==
    (handler = "ush_uget" /\ hargs # <<>>)
        => /\ exc.line \notin NetworkFailureLines
           /\ Len(UrlParts) < 4 => (pc = "Looping" /\ out # <<>>)

\* C9: for a four-part URL whose scheme is neither http nor https, http_get
\* prints the unknown-scheme error and returns, having made no resolver or
\* socket call and having left the filesystem alone, and the loop goes on.
C9_UnknownScheme ==
    [][(/\ pc = "WaitingForInput"
        /\ handler' = "ush_uget"
        /\ hargs' # <<>>
        /\ Len(SplitOn(Last(hargs'), "/", 3)) = 4
        /\ SplitOn(Last(hargs'), "/", 3)[1]
              \notin {<<"http">>, <<"https">>, <<"http", ":">>, <<"https", ":">>})
         => /\ pc' = "Looping"
            /\ exc' = NoExc
            /\ out' = <<Msg("Error: unknown scheme: ", SplitOn(Last(hargs'), "/", 3)[1])>>
            /\ net' = <<>>
            /\ fs' = fs
            /\ cwd' = cwd
            /\ files_open' = {}]_vars

C9_Witness ==
    /\ pc = "Looping"
    /\ handler = "ush_uget"
    /\ hargs # <<>>
    /\ Url = UrlFtp
    /\ out = <<Msg("Error: unknown scheme: ", <<"ftp", ":">>)>>
    /\ net = <<>>

\* C10: when the output path names no entry and the fetch completes, then for
\* every body, the empty one included, the path afterwards holds a file whose
\* content is the body, and the file has been closed.
C10_BodyWritten ==
    [][(/\ pc = "Receiving"
        /\ pc' = "Looping"
        /\ output_file # <<>>
        /\ ~CanStat(Resolve(output_file)))
         => /\ Resolve(output_file) \in FsPaths
            /\ fs'[Resolve(output_file)] = FileEntry(SplitOn(response, SEP, 1)[2])
            /\ files_open' = {}]_vars

\* C11: a fetch without output path whose response holds a separator prints
\* the header block (all before the first separator), then `Body:` and the
\* body (all after the first separator, later separators included) when the
\* body is not empty, or `Body: None` when it is; the filesystem is unchanged.
C11_BodyToConsole ==
    [][(/\ ResponseReceived
        /\ output_file = <<>>
        /\ Contains(response, SEP))
         => LET at == Find(response, SEP)
                headers == SubSeq(response, 1, at - 1)
                body == SubSeq(response, at + 1, Len(response))
            IN  /\ pc' = "Looping"
                /\ out' = out \o <<Msg("Headers:", <<>>), Msg("", headers)>>
                              \o (IF body = <<>> THEN <<Msg("Body: None", <<>>)>>
                                  ELSE <<Msg("Body:", <<>>), Msg("", body)>>)
                /\ fs' = fs
                /\ files_open' = {}]_vars

\* a body that itself holds a separator has been shown on the console
C11_Witness ==
    /\ pc = "Looping"
    /\ handler = "ush_uget"
    /\ output_file = <<>>
    /\ response = <<SEP, SEP>>
    /\ out[Len(out)] = Msg("", <<SEP>>)

\* the request line and Host header the specification gives for the URL of the fetch
C12_Request ==
    <<"GET /">> \o UrlParts[4] \o <<" HTTP/1.0\\r\\nHost: ">>
        \o SplitOn(UrlParts[3], ":", 1)[1] \o <<"\\r\\n\\r\\n">>

\* the network calls of a fetch so far are in order: a send only right after
\* the connect, at most one send, and it carries exactly the request
C12_CallsInOrder ==
    /\ \A i \in 1..Len(net) :
          net[i].op = "send" =>
             /\ i > 1
             /\ net[i - 1].op = "connect"
             /\ net[i].data = C12_Request
             /\ \A j \in 1..Len(net) : net[j].op = "send" => j = i
    /\ \A i \in 1..Len(net) : net[i].op # "send" => net[i].data = <<>>
    /\ (pc = "Receiving" \/ response # <<>>) =>
          /\ Len(net) >= 2
          /\ net[Len(net)].op = "send"

\* C12: in every fetch that reaches the network the connect comes first, then
\* exactly one send, and only then the receives; the request sent is exactly
\* `GET /<path> HTTP/1.0\r\nHost: <host>\r\n\r\n` with <path> the URL after its
\* third `/` and <host> the host without `:port`; nothing is sent once
\* receiving has begun.
C12_ConnectSendReceive ==
    /\ []C12_CallsInOrder
    /\ [][pc = "Receiving" => net' = net]_vars

\* data has been received in a fetch of a URL with an explicit port
C12_Witness ==
    /\ pc = "Receiving"
    /\ response # <<>>
    /\ Url = UrlHttpsPort
    /\ net[Len(net)] = NetCall("send", <<"h">>, 8443, C12_Request)

\* the aliases of the command table lead to one handler each, and exit and
\* quit both end the loop
C13_Aliases ==
    /\ (handler # "none" /\ Cmd \in {<<"free">>, <<"meminfo">>, <<"vmstat">>})
          => handler = "ush_meminfo"
    /\ (handler # "none" /\ Cmd \in {<<"uget">>, <<"wget">>}) => handler = "ush_uget"
    /\ (handler = "ush_meminfo") => Cmd \in {<<"free">>, <<"meminfo">>, <<"vmstat">>}
    /\ (handler = "ush_uget") => Cmd \in {<<"uget">>, <<"wget">>}
    /\ (pc # "WaitingForInput" /\ HasTokens /\ Cmd \in {<<"exit">>, <<"quit">>})
          => (pc = "Terminated" /\ handler = "none")

\* the statement as written: every handler is passed exactly the tokens after
\* the first one
C13_Original ==
    /\ C13_Aliases
    /\ handler # "none" => hargs = Tail(Tokens)

\* C13: free, meminfo and vmstat invoke the same handler, uget and wget invoke
\* the same handler, exit and quit both end the loop, and the argument list
\* passed to a handler is exactly the tokens after the first one, in order,
\* without the command word; ush_help and ush_pwd are called with no argument
\* list at all, whatever follows the command word.
C13_AliasesAndArguments ==
    /\ C13_Aliases
    /\ handler # "none" =>
          hargs = IF handler \in {"ush_help", "ush_pwd"} THEN <<>> ELSE Tail(Tokens)

\* the alias wget has invoked the fetch handler with the one token after it
C13_Witness ==
    /\ handler = "ush_uget"
    /\ Cmd = <<"wget">>
    /\ hargs = <<UrlFtp>>

\* the handlers of C14, and whether the host call of handler h on the entry
\* at p cannot succeed
C14_Handlers == {"ush_cat", "ush_cd", "ush_df", "ush_mkdir", "ush_rm", "ush_rmdir"}

C14_CallFails(h, p) ==
    CASE h = "ush_cat" -> ~CanRead(p)
      [] h = "ush_cd" -> ~CanChdir(p)
      [] h = "ush_df" -> ~CanStat(p)
      [] h = "ush_mkdir" -> ~CanMkdir(p)
      [] h = "ush_rm" -> ~CanRemove(p)
      [] h = "ush_rmdir" -> ~CanRmdir(p)

\* C14: when the host filesystem call of cat, cd, df, mkdir, rm or rmdir fails,
\* the handler prints exactly one diagnostic line, which names the command that
\* was run and the offending path, and returns; for rm the line is
\* `rm: <file>: No such file (or is a directory)`.
C14_DiagnosticNamesCommand ==
    [][(/\ pc = "WaitingForInput"
        /\ handler' \in C14_Handlers
        /\ (hargs' = <<>> => handler' = "ush_df")
        /\ (hargs' # <<>> /\ handler' \in {"ush_mkdir", "ush_rm", "ush_rmdir"})
              => hargs'[1] \notin {<<"-h">>, <<"help">>}
        /\ C14_CallFails(handler', Resolve(IF hargs' = <<>> THEN <<"/">> ELSE hargs'[1])))
         => LET path == IF hargs' = <<>> THEN <<"/">> ELSE hargs'[1]
            IN  /\ pc' = "Looping"
                /\ exc' = NoExc
                /\ Len(out') = 1
                /\ <<out'[1].word>> = Head(SplitWs(inp'))
                /\ out'[1].arg = path
                /\ handler' = "ush_rm" =>
                      out'[1] = Line("rm", ": {}: No such file (or is a directory)", path)
                /\ fs' = fs
                /\ cwd' = cwd]_vars

\* the handlers of the commands with a required argument
C15_Handlers == {"ush_cat", "ush_cd", "ush_mkdir", "ush_rm", "ush_rmdir", "ush_uget"}

\* C15: cat, cd, mkdir, rm, rmdir and uget/wget invoked with an empty argument
\* list print one line starting with `usage:` and return; the filesystem and
\* the working directory are as before, no file is open, and no socket was
\* created and no network call made.
C15_UsageWithoutEffects ==
    [][(/\ pc = "WaitingForInput"
        /\ handler' \in C15_Handlers
        /\ hargs' = <<>>)
         => /\ pc' = "Looping"
            /\ exc' = NoExc
            /\ Len(out') = 1
            /\ out'[1].word = "usage"
            /\ fs' = fs
            /\ cwd' = cwd
            /\ files_open' = {}
            /\ sock' = "none"
            /\ net' = <<>>]_vars

\* `cat` alone, typed in a directory other than the root, printed its usage line
C15_Witness ==
    /\ handler = "ush_cat"
    /\ hargs = <<>>
    /\ cwd = <<"d">>
    /\ out = <<Line("usage", ": cat <file>", <<>>)>>

\* at the prompt nothing of the previous command is left but the filesystem
\* and the working directory: the locals of shell(), of the handlers and of
\* http_get are gone
C16_NothingKept ==
    pc = "WaitingForInput" =>
       /\ inp = <<>>
       /\ handler = "none"
       /\ hargs = <<>>
       /\ out = <<>>
       /\ exc = NoExc
       /\ url = <<>>
       /\ response = <<>>
       /\ output_file = <<>>
       /\ net = <<>>
       /\ sock = "none"
       /\ files_open = {}
       /\ df_row = NoRow
       /\ resets = <<>>

\* C16: the working directory changes only in a step of `cd <dir>` whose chdir
\* succeeds, and then to that directory; every other command, a cd that fails
\* and a cd without argument leave it as it was; and nothing but the filesystem
\* and the working directory passes from one command to the next.
C16_CwdChangesOnlyByCd ==
    /\ []C16_NothingKept
    /\ [][cwd' # cwd =>
            /\ pc = "WaitingForInput"
            /\ handler' = "ush_cd"
            /\ hargs' # <<>>
            /\ CanChdir(Resolve(hargs'[1]))
            /\ cwd' = Resolve(hargs'[1])
            /\ out' = <<>>]_vars

\* a cd that failed in a directory other than the root left the shell there
C16_Witness ==
    /\ handler = "ush_cd"
    /\ cwd = <<"d">>
    /\ out = <<Line("cd", ": no such file or directory: ", <<"f">>)>>

\* C17: for a statvfs result with a power-of-two fragment size and a non-zero
\* block count ush_df prints the row with
\* adj_size = trunc(blocks * frsize / 1024), adj_avail = trunc(bfree * frsize / 1024),
\* Used = adj_size - adj_avail and Capacity = trunc(Used / adj_size * 100).
C17_DfNumbers ==
    (handler = "ush_df" /\ df_row.blocks # 0)
        => /\ Len(out) = 2
           /\ df_row.size = (df_row.blocks * df_row.frsize) \div 1024
           /\ df_row.avail = (df_row.bfree * df_row.frsize) \div 1024
           /\ df_row.used = df_row.size - df_row.avail
           /\ df_row.size # 0
           /\ df_row.cap = (df_row.used * 100) \div df_row.size

\* the peer eventually closes the stream: a receive that returns no data is
\* not put off for ever
FairSpec == Spec /\ WF_vars(RecvEnd)

\* a step taken inside the receive loop: the shell reads no line; a receive
\* with data appends it to the response and the loop goes on; the loop is left
\* only by a receive of zero bytes, with the response as accumulated
C18_LoopStep ==
    pc = "Receiving" =>
       /\ inp' = inp
       /\ pc' = "Receiving" =>
             /\ Len(response') > Len(response)
             /\ SubSeq(response', 1, Len(response)) = response
       /\ pc' # "Receiving" =>
             /\ response' = response
             /\ exc'.line # 211

\* C18: the receive loop ends exactly when a receive returns zero bytes. When
\* the peer eventually closes, the fetch eventually goes on to the split and
\* the output with the response being the received chunks in arrival order;
\* until then http_get stays in the loop and the shell reads no other line.
C18_ReceiveLoop ==
    /\ [][C18_LoopStep]_vars
    /\ [][(pc # "Receiving" /\ pc' = "Receiving") => response' = <<>>]_vars
    /\ (pc = "Receiving") ~> (pc # "Receiving" /\ exc.line # 211)

\* C19: ush_uget gives http_get the last argument as the URL; with exactly one
\* argument it gives no output file, and with two or more the first argument
\* is the output file, whatever stands between the first and the last.
C19_UrlIsLastArgument ==
    (handler = "ush_uget" /\ hargs # <<>>)
        => /\ url = hargs[Len(hargs)]
           /\ output_file = IF Len(hargs) = 1 THEN <<>> ELSE hargs[1]

\* a fetch with three arguments took the third as URL and the first as
\* output file
C19_Witness ==
    /\ handler = "ush_uget"
    /\ Len(hargs) = 3
    /\ hargs[2] = <<"d">>
    /\ url = UrlFtp
    /\ output_file = <<"f">>

\* C20: ush_reboot calls no reset primitive when its first argument is `-h` or
\* `help`; it calls the hard reset when its first argument is `hard`; for every
\* other argument list, the empty one included, it calls the soft reset. After
\* `reboot hard` the soft reset is called only once the hard reset has returned.
C20_ResetChosenByFirstArgument ==
    handler = "ush_reboot" =>
        IF hargs # <<>> /\ hargs[1] \in {<<"-h">>, <<"help">>}
        THEN resets = <<>> /\ pc = "Looping"
        ELSE IF hargs # <<>> /\ hargs[1] = <<"hard">>
        THEN \/ resets = <<"reset">> /\ pc = "Reset"
             \/ resets = <<"reset", "soft_reset">>
        ELSE resets = <<"soft_reset">>

\* `reboot hard` has called the hard reset, which did not return
C20_Witness ==
    /\ handler = "ush_reboot"
    /\ hargs = <<<<"hard">>>>
    /\ pc = "Reset"
    /\ resets = <<"reset">>

====
